---- MODULE Spec2Model ----
(***************************************************************************)
(* Patch Tuesday viewer (React client component PatchTuesday).             *)
(*                                                                         *)
(* The model follows the JSON version of the component: its React state,   *)
(* the index fetch effect, the month fetch effect, the filter/sort effect  *)
(* and the render branches.                                                *)
(*                                                                         *)
(* Strings are sequences of tokens ("2024-Jan.json" is                     *)
(* <<"2024", "-", "Jan", ".json">>), so that split, endsWith and replace   *)
(* are computed and not assumed.  Scores are in tenths (9.8 is 98).        *)
(* The average of getSummaryStats is an exact fraction of tenths.         *)
(*                                                                         *)
(* One step is one handler (a click, a promise chain that settles) with    *)
(* the render it commits; the passive effects of that commit run in the    *)
(* next step (RunEffects), before any other handler.                       *)
(***************************************************************************)
EXTENDS Integers, Sequences, FiniteSets, TLC

VARIABLES
    patches,           \* useState: year key -> files of that year
    openYears,         \* useState: the year keys toggled open
    selected,          \* useState: the selected file, or NULL
    data,              \* useState: the loaded dataset, or NULL
    categories,        \* useState: the category options
    selectedCategory,  \* useState: the category filter, EmptyString for none
    cvssSort,          \* useState: "desc", "asc" or EmptyString
    showSummary,       \* useState: summary view or table view
    filteredVulns,     \* useState: the derived view
    loading,           \* useState: the loading flag
    indexFetch,        \* the index promise: "pending" or "settled"
    inflight,          \* the month fetches that have not settled
    issued,            \* how many month fetches were issued
    console,           \* what console.error has logged
    crashed,           \* an error was thrown in an effect or in render
    pendingEffects,    \* effects whose dependencies changed in the last commit
    event              \* the last handler that ran

vars == <<patches, openYears, selected, data, categories, selectedCategory,
          cvssSort, showSummary, filteredVulns, loading, indexFetch, inflight,
          issued, console, crashed, pendingEffects, event>>

----
\* Bounds of the model

MaxIndexLen == 3

MaxFetches == 3

MaxRecords == 3

----
\* JavaScript values

\* the null of a state that otherwise holds an object
NULL == [js |-> "null"]

\* a value that may be null or undefined and is otherwise a string, a number or
\* an array: a sequence of at most one value
None == <<>>

Some(x) == <<x>>

EmptyString == ""

\* const MONTH_ORDER
MONTH_ORDER == <<"Jan", "Feb", "Mar", "Apr", "May", "Jun",
                 "Jul", "Aug", "Sep", "Oct", "Nov", "Dec">>

\* MONTH_ORDER.indexOf(s), counted from 0, -1 when absent; s is a token string
IndexOfMonth(s) ==
    IF Len(s) = 1 /\ \E i \in 1..Len(MONTH_ORDER) : MONTH_ORDER[i] = s[1]
    THEN (CHOOSE i \in 1..Len(MONTH_ORDER) : MONTH_ORDER[i] = s[1]) - 1
    ELSE -1

\* String.prototype.endsWith
EndsWith(s, suffix) == Len(s) > 0 /\ s[Len(s)] = suffix

\* String.prototype.split: the pieces of s between the separator tokens
RECURSIVE SplitFrom(_, _, _, _)
SplitFrom(s, sep, i, piece) ==
    IF i > Len(s) THEN <<piece>>
    ELSE IF s[i] = sep THEN <<piece>> \o SplitFrom(s, sep, i + 1, <<>>)
    ELSE SplitFrom(s, sep, i + 1, Append(piece, s[i]))

Split(s, sep) == SplitFrom(s, sep, 1, <<>>)

\* parts[i] of a JavaScript array, counted from 0
At(parts, i) == IF i + 1 <= Len(parts) THEN Some(parts[i + 1]) ELSE None

\* String.prototype.replace(token, ""): the first occurrence is removed
Replace(s, token) ==
    IF \E i \in 1..Len(s) : s[i] = token
    THEN LET k == CHOOSE i \in 1..Len(s) :
                      s[i] = token /\ \A j \in 1..(i - 1) : s[j] # token
         IN  SubSeq(s, 1, k - 1) \o SubSeq(s, k + 1, Len(s))
    ELSE s

Range(s) == {s[i] : i \in 1..Len(s)}

\* Array.prototype.sort with a comparator Key[a] - Key[b]: stable, ascending in Key
RECURSIVE StableSort(_, _)
StableSort(s, Key) ==
    IF s = <<>> THEN <<>>
    ELSE LET front == StableSort(SubSeq(s, 1, Len(s) - 1), Key)
             x == s[Len(s)]
             later == {i \in 1..Len(front) : Key[front[i]] > Key[x]}
             k == IF later = {} THEN Len(front) + 1
                  ELSE CHOOSE i \in later : \A j \in later : i <= j
         IN  SubSeq(front, 1, k - 1) \o <<x>> \o SubSeq(front, k, Len(front))

----
\* The index: fetch(baseRawUrl + "index.json") and the grouping by year

JSON_EXT == ".json"

\* const grouped: Record<string, string[]> = {}
EmptyObject == [k \in {} |-> <<>>]

\* file.split("-")[0]
YearOf(file) == At(Split(file, "-"), 0)[1]

\* a.split("-")[1], undefined when the file has no "-"
MonthPart(file) == At(Split(file, "-"), 1)

\* MONTH_ORDER.indexOf(a.split("-")[1].replace(".json", ""))
MonthRank(file) == IndexOfMonth(Replace(MonthPart(file)[1], JSON_EXT))

\* the body of data.forEach((file) => ...): one file
GroupFile(grouped, file) ==
    IF ~EndsWith(file, JSON_EXT) THEN grouped
    ELSE LET year == YearOf(file)
         IN  IF year \in DOMAIN grouped
             THEN [grouped EXCEPT ![year] = Append(@, file)]
             ELSE [k \in DOMAIN grouped \cup {year} |->
                      IF k = year THEN <<file>> ELSE grouped[k]]

RECURSIVE GroupFiles(_, _)
GroupFiles(grouped, files) ==
    IF files = <<>> THEN grouped
    ELSE GroupFiles(GroupFile(grouped, Head(files)), Tail(files))

\* the comparator reads a.split("-")[1].replace: a TypeError when a file of a
\* group that is compared (two files or more) has no "-"
SortThrows(group) ==
    Len(group) >= 2 /\ \E i \in 1..Len(group) : MonthPart(group[i]) = None

\* for (const year in grouped) grouped[year].sort(...)
SortGroups(grouped) ==
    [year \in DOMAIN grouped |->
        IF Len(grouped[year]) >= 2 THEN StableSort(grouped[year],
                        [f \in Range(grouped[year]) |-> MonthRank(f)])
        ELSE grouped[year]]

\* the index chain, had the status of the response not been looked at
IndexChainAnyStatus(r) ==
    IF r.kind = "network" \/ r.body.json # "array"
    THEN [rejected |-> TRUE, grouped |-> EmptyObject]
    ELSE IF \E i \in 1..Len(r.body.items) : r.body.items[i].t # "string"
    THEN [rejected |-> TRUE, grouped |-> EmptyObject]
    ELSE LET files == [i \in 1..Len(r.body.items) |-> r.body.items[i].s]
             grouped == GroupFiles(EmptyObject, files)
         IN  IF \E year \in DOMAIN grouped : SortThrows(grouped[year])
             THEN [rejected |-> TRUE, grouped |-> EmptyObject]
             ELSE [rejected |-> FALSE, grouped |-> SortGroups(grouped)]

\* The promise chain of the index fetch, for one response: what setPatches is
\* given, or that the chain was rejected and .catch ran
IndexChain(r) ==
    IF r.kind = "network" \/ ~r.ok \/ r.body.json # "array"
    THEN [rejected |-> TRUE, grouped |-> EmptyObject]
    ELSE IF \E i \in 1..Len(r.body.items) : r.body.items[i].t # "string"
    THEN [rejected |-> TRUE, grouped |-> EmptyObject]
    ELSE LET files == [i \in 1..Len(r.body.items) |-> r.body.items[i].s]
             grouped == GroupFiles(EmptyObject, files)
         IN  IF \E year \in DOMAIN grouped : SortThrows(grouped[year])
             THEN [rejected |-> TRUE, grouped |-> EmptyObject]
             ELSE [rejected |-> FALSE, grouped |-> SortGroups(grouped)]
----
\* The month dataset: fetch(baseRawUrl + selected), then / catch / finally

\* interface Vulnerability
Vuln(cve, score, exploited, likely, types, cats) ==
    [cve |-> cve,
     cvss_score |-> score, \* number | null: None or Some(tenths)
     exploited |-> exploited,
     exploitation_likely |-> likely,
     threat_types |-> types,
     affected_products |-> [i \in 1..Len(cats) |-> [category |-> cats[i]]]]

\* the category strings of the model, in the order of the default
\* Array.prototype.sort (UTF-16 code units)
CodeUnitOrder == <<"Azure", "Mariner", "Windows">>

CodeUnitRank(c) == CHOOSE i \in 1..Len(CodeUnitOrder) : CodeUnitOrder[i] = c

\* Array.from(new Set(xs)): the first occurrence of each value, in order
RECURSIVE Unique(_)
Unique(xs) ==
    IF xs = <<>> THEN <<>>
    ELSE LET front == Unique(SubSeq(xs, 1, Len(xs) - 1))
         IN  IF xs[Len(xs)] \in Range(front) THEN front
             ELSE Append(front, xs[Len(xs)])

\* the categories, had .sort() been left out
CategoriesUnsorted(products) ==
    Unique([i \in 1..Len(products) |-> products[i].category])

\* Array.from(new Set(Object.values(json.products).map((p) => p.category))).sort()
\* products holds Object.values(json.products), in key order
CategoriesOf(products) ==
    LET cats == Unique([i \in 1..Len(products) |-> products[i].category])
    IN  StableSort(cats, [c \in Range(cats) |-> CodeUnitRank(c)])

\* the month chain, had .catch only logged the error
MonthChainKeepsData(r, cur) ==
    IF r.kind = "network" \/ ~r.ok \/ r.body.json # "object"
    THEN [cur EXCEPT !.rejected = TRUE]
    ELSE IF "products" \notin DOMAIN r.body.value
    THEN [cur EXCEPT !.data = r.body.value, !.rejected = TRUE]
    ELSE [data |-> r.body.value,
          categories |-> CategoriesOf(r.body.value.products),
          selectedCategory |-> EmptyString,
          showSummary |-> TRUE,
          rejected |-> FALSE]

\* The promise chain of a month fetch for one response, from the state cur
\* (data, categories, selectedCategory, showSummary): the state it leaves
MonthChain(r, cur) ==
    IF r.kind = "network" \/ ~r.ok \/ r.body.json # "object"
    THEN \* fetch or res.json() rejects, or !res.ok throws: .catch
         [cur EXCEPT !.data = NULL, !.categories = <<>>, !.rejected = TRUE]
    ELSE IF "products" \notin DOMAIN r.body.value
    THEN \* setData(json), then Object.values(undefined) throws: .catch
         [cur EXCEPT !.data = NULL, !.categories = <<>>, !.rejected = TRUE]
    ELSE [data |-> r.body.value,
          categories |-> CategoriesOf(r.body.value.products),
          selectedCategory |-> EmptyString,
          showSummary |-> TRUE,
          rejected |-> FALSE]

----
\* The filter/sort effect

\* vuln.affected_products.some((prod) => prod.category === selectedCategory)
AffectsCategory(vuln, cat) ==
    \E i \in 1..Len(vuln.affected_products) :
        vuln.affected_products[i].category = cat

\* a.cvss_score ?? 0
ScoreOrZero(vuln) == IF vuln.cvss_score = None THEN 0 ELSE vuln.cvss_score[1]

\* [...vulns].sort((a, b) => cvssSort === 'desc' ? bScore - aScore : aScore - bScore)
SortByScore(vulns, sort) ==
    StableSort(vulns, [v \in Range(vulns) |->
                          IF sort = "desc" THEN 0 - ScoreOrZero(v)
                          ELSE ScoreOrZero(v)])

\* the effect body, had it sorted vulns without copying it first: with no
\* category selected vulns is the array of the dataset
FilterSortInPlace(d, cat, sort) ==
    IF "vulnerabilities" \notin DOMAIN d
    THEN [threw |-> cat # EmptyString \/ sort # EmptyString,
          view |-> None, dataset |-> d]
    ELSE LET kept == IF cat = EmptyString THEN d.vulnerabilities
                     ELSE SelectSeq(d.vulnerabilities,
                                    LAMBDA v : AffectsCategory(v, cat))
             sorted == IF sort # EmptyString THEN SortByScore(kept, sort) ELSE kept
         IN  [threw |-> FALSE,
              view |-> Some(sorted),
              dataset |-> IF cat = EmptyString
                          THEN [d EXCEPT !.vulnerabilities = sorted] ELSE d]

\* The effect body for a dataset d that is not null: the value given to
\* setFilteredVulns (None for undefined), the dataset as the effect leaves it,
\* and whether the effect threw
FilterSort(d, cat, sort) ==
    IF "vulnerabilities" \notin DOMAIN d
    THEN \* undefined.filter(...) and [...undefined] are TypeErrors
         [threw |-> cat # EmptyString \/ sort # EmptyString,
          view |-> None, dataset |-> d]
    ELSE LET kept == IF cat = EmptyString THEN d.vulnerabilities
                     ELSE SelectSeq(d.vulnerabilities,
                                    LAMBDA v : AffectsCategory(v, cat))
         IN  [threw |-> FALSE,
              view |-> Some(IF sort # EmptyString THEN SortByScore(kept, sort)
                            ELSE kept),
              dataset |-> d]

----
\* Summary statistics: getSummaryStats

VULN_TYPES ==
    <<"Elevation of Privilege", "Security Feature Bypass", "Remote Code Execution",
      "Information Disclosure", "Denial of Service", "Spoofing", "Edge - Chromium">>

\* cvssScores, had a record without a score counted as one scored 0
cvssScoresNullAsZero(vulns) == [i \in 1..Len(vulns) |-> ScoreOrZero(vulns[i])]

\* vulns.map((v) => v.cvss_score).filter((s) => s !== null), in tenths
cvssScores(vulns) ==
    LET scores == [i \in 1..Len(vulns) |-> vulns[i].cvss_score]
        numbers == SelectSeq(scores, LAMBDA s : s # None)
    IN  [i \in 1..Len(numbers) |-> numbers[i][1]]

\* scores.reduce((a, b) => a + b, initial)
RECURSIVE Reduce(_, _)
Reduce(scores, initial) ==
    IF scores = <<>> THEN initial
    ELSE Reduce(Tail(scores), initial + Head(scores))

RECURSIVE GCD(_, _)
GCD(a, b) == IF b = 0 THEN a ELSE GCD(b, a % b)

\* the number n / d for d > 0, as the fraction in lowest terms; the number 0
\* is Quotient(0, 1)
Quotient(n, d) == [num |-> n \div GCD(n, d), den |-> d \div GCD(n, d)]

getSummaryStats(vulns) ==
    LET scores == cvssScores(vulns)
    IN  [total |-> Len(vulns),
         exploited |-> Len(SelectSeq(vulns, LAMBDA v : v.exploited)),
         likely |-> Len(SelectSeq(vulns, LAMBDA v : v.exploitation_likely)),
         high |-> Len(SelectSeq(scores, LAMBDA s : s >= 70)),
         critical |-> Len(SelectSeq(scores, LAMBDA s : s >= 90)),
         avg |-> IF Len(scores) # 0 THEN Quotient(Reduce(scores, 0), Len(scores))
                 ELSE Quotient(0, 1),
         byType |-> [type \in Range(VULN_TYPES) |->
                        Len(SelectSeq(vulns, LAMBDA v : type \in Range(v.threat_types)))]]

----
\* Render

\* the content panel, had the dataset branch come before the loading branch
BranchDatasetFirst ==
    IF data # NULL THEN "dataset" ELSE IF loading THEN "placeholder" ELSE "nodata"

\* the branch of the content panel: loading ? ... : data ? ... : ...
Branch == IF loading THEN "placeholder" ELSE IF data # NULL THEN "dataset"
          ELSE "nodata"

\* what the panel shows: the branch and, in the dataset branch, the title and
\* the records the header statistics and the table are built from
Displayed ==
    IF Branch = "dataset"
    THEN [branch |-> Branch, title |-> data.metadata.title, records |-> filteredVulns]
    ELSE [branch |-> Branch]

\* getSummaryStats(filteredVulns) reads filteredVulns.length and SummaryView
\* reads data.vulnerabilities.filter: TypeErrors when they are undefined
RenderThrows ==
    /\ Branch = "dataset"
    /\ \/ filteredVulns = None
       \/ showSummary /\ "vulnerabilities" \notin DOMAIN data

\* the statistics of the header of the dataset branch:
\* getSummaryStats(filteredVulns), None when the panel shows no header
HeaderStats ==
    IF Branch = "dataset" /\ filteredVulns # None
    THEN Some(getSummaryStats(filteredVulns[1]))
    ELSE None
----
\* What the static host may answer

File(year, month, ext) == <<year, "-", month, ext>>

Jan2024 == File("2024", "Jan", JSON_EXT)

Nov2024 == File("2024", "Nov", JSON_EXT)

Dec2024 == File("2024", "Dec", JSON_EXT)

Dec2023 == File("2023", "Dec", JSON_EXT)

BadEntry == File("bad", "entry", ".txt")

Foo2024 == File("2024", "Foo", JSON_EXT)

NoDash == <<"nodash", JSON_EXT>>

\* the entries an index array is made of: strings and one value that is no string
IndexItems ==
    {[t |-> "string", s |-> f] :
        f \in {Jan2024, Nov2024, Dec2024, Dec2023, BadEntry, Foo2024, NoDash}}
    \cup {[t |-> "number"]}

SeqsUpTo(S, n) == UNION {[1..k -> S] : k \in 0..n}

NetworkError == [kind |-> "network"]

Http(ok, body) == [kind |-> "http", ok |-> ok, body |-> body]

NotJson == [json |-> "invalid"]

JsonArray(items) == [json |-> "array", items |-> items]

JsonObject(value) == [json |-> "object", value |-> value]

Strings(files) == [i \in 1..Len(files) |-> [t |-> "string", s |-> files[i]]]

\* every answer to the index fetch within the bound
IndexResponses ==
    {NetworkError}
    \cup {Http(ok, body) :
            ok \in BOOLEAN,
            body \in {NotJson, JsonObject([message |-> "Not Found"])}
                     \cup {JsonArray(items) : items \in SeqsUpTo(IndexItems, MaxIndexLen)}}

\* the answers to the index fetch when the month loader is explored
AppIndexResponses ==
    {NetworkError, Http(TRUE, JsonArray(Strings(<<Dec2024, Jan2024>>)))}

Product(name, category) == [name |-> name, category |-> category]

\* the dataset the host serves for a file
ServerDataset(file) ==
    IF file = Jan2024
    THEN [metadata |-> [title |-> file],
          products |-> <<Product("Windows 11", "Windows"), Product("Azure CLI", "Azure"),
                         Product("Windows 10", "Windows")>>,
          vulnerabilities |->
              <<Vuln("CVE-1", Some(98), TRUE, FALSE, <<"Remote Code Execution">>, <<"Windows">>),
                Vuln("CVE-2", None, FALSE, TRUE, <<"Spoofing">>, <<"Azure">>),
                Vuln("CVE-3", Some(50), FALSE, FALSE, <<>>, <<"Windows">>)>>]
    ELSE [metadata |-> [title |-> file],
          products |-> <<Product("CBL-Mariner 2.0", "Mariner"), Product("Azure CLI", "Azure")>>,
          vulnerabilities |->
              <<Vuln("CVE-4", Some(70), FALSE, FALSE, <<"Denial of Service">>, <<"Mariner">>),
                Vuln("CVE-5", Some(90), TRUE, TRUE, <<"Elevation of Privilege">>,
                     <<"Azure", "Mariner">>)>>]

\* every answer to the fetch of a month file
MonthResponses(file) ==
    {NetworkError,
     Http(FALSE, NotJson),
     Http(TRUE, NotJson),
     Http(TRUE, JsonObject([metadata |-> [title |-> file],
                            vulnerabilities |-> ServerDataset(file).vulnerabilities])),
     Http(TRUE, JsonObject([metadata |-> [title |-> file],
                            products |-> ServerDataset(file).products])),
     Http(TRUE, JsonObject(ServerDataset(file)))}

----
\* The component

INDEX_DIAGNOSTIC == "Error loading index.json:"

MONTH_DIAGNOSTIC == "Error loading patch content:"

\* the state after the first commit and its effects: the index fetch is issued,
\* the month effect and the filter effect return at once
Init ==
    /\ patches = EmptyObject
    /\ openYears = {}
    /\ selected = None
    /\ data = NULL
    /\ categories = <<>>
    /\ selectedCategory = EmptyString
    /\ cvssSort = EmptyString
    /\ showSummary = TRUE
    /\ filteredVulns = Some(<<>>)
    /\ loading = FALSE
    /\ indexFetch = "pending"
    /\ inflight = {}
    /\ issued = 0
    /\ console = <<>>
    /\ crashed = FALSE
    /\ pendingEffects = {}
    /\ event = [type |-> "mount"]

\* a handler runs once the effects of the last commit have run, and never after
\* an error has unmounted the component
Idle == ~crashed /\ pendingEffects = {}

\* the index promise chain settles with response r of R
IndexFetchSettles(R) ==
    /\ Idle
    /\ indexFetch = "pending"
    /\ \E r \in R :
        LET chain == IndexChain(r)
        IN  /\ patches' = IF chain.rejected THEN patches ELSE chain.grouped
            /\ console' = IF chain.rejected THEN Append(console, INDEX_DIAGNOSTIC)
                          ELSE console
            /\ event' = [type |-> "indexSettled", response |-> r]
    /\ indexFetch' = "settled"
    /\ UNCHANGED <<openYears, selected, data, categories, selectedCategory, cvssSort,
                   showSummary, filteredVulns, loading, inflight, issued, crashed,
                   pendingEffects>>

\* toggleYear(year): a click on a year button
ToggleYear ==
    /\ Idle
    /\ \E year \in DOMAIN patches :
        openYears' = IF year \in openYears THEN openYears \ {year}
                     ELSE openYears \cup {year}
    /\ event' = [type |-> "toggleYear"]
    /\ UNCHANGED <<patches, selected, data, categories, selectedCategory, cvssSort,
                   showSummary, filteredVulns, loading, indexFetch, inflight, issued,
                   console, crashed, pendingEffects>>

\* onClick={() => setSelected(file)}: a click on a month button of an open year;
\* setting the state to the value it has commits nothing and runs no effect
SelectMonth ==
    /\ Idle
    /\ \E year \in openYears : \E i \in 1..Len(patches[year]) :
        LET file == patches[year][i]
        IN  /\ Some(file) # selected => issued < MaxFetches
            /\ selected' = Some(file)
            /\ pendingEffects' = IF Some(file) # selected THEN {"month"} ELSE {}
            /\ event' = [type |-> "select", file |-> file, issuedBefore |-> issued]
    /\ UNCHANGED <<patches, openYears, data, categories, selectedCategory, cvssSort,
                   showSummary, filteredVulns, loading, indexFetch, inflight, issued,
                   console, crashed>>
\* the month effect, had it aborted the superseded fetches in a cleanup
InflightAfterIssueAbort(current, fetch) == {fetch}

\* fetch(baseRawUrl + selected) in the month effect: the effect returns no
\* cleanup, so the fetches issued before stay in flight
InflightAfterIssue(current, fetch) == current \cup {fetch}

\* The passive effects of the last commit, in the order the component declares
\* them: the month effect when selected changed (setLoading(true), fetch), the
\* filter effect when data, selectedCategory or cvssSort changed
RunEffects ==
    /\ ~crashed
    /\ pendingEffects # {}
    /\ IF "month" \in pendingEffects /\ selected # None
       THEN /\ loading' = TRUE
            /\ issued' = issued + 1
            /\ inflight' = InflightAfterIssue(inflight,
                                              [id |-> issued + 1, file |-> selected[1]])
       ELSE UNCHANGED <<loading, issued, inflight>>
    /\ pendingEffects' = {}
    /\ UNCHANGED <<patches, openYears, selected, categories, selectedCategory, cvssSort,
                   showSummary, indexFetch, console, event>>
    /\ IF "filter" \in pendingEffects /\ data # NULL
       THEN LET effect == FilterSort(data, selectedCategory, cvssSort)
            IN  /\ data' = effect.dataset
                /\ filteredVulns' = IF effect.threw THEN filteredVulns ELSE effect.view
                /\ crashed' = (effect.threw \/ RenderThrows')
       ELSE /\ UNCHANGED <<data, filteredVulns>>
            /\ crashed' = RenderThrows'

\* The promise chain of an in-flight month fetch settles: then / catch / finally
MonthFetchSettles ==
    /\ Idle
    /\ \E f \in inflight : \E r \in MonthResponses(f.file) :
        LET after == MonthChain(r, [data |-> data, categories |-> categories,
                                    selectedCategory |-> selectedCategory,
                                    showSummary |-> showSummary, rejected |-> FALSE])
        IN  /\ data' = after.data
            /\ categories' = after.categories
            /\ selectedCategory' = after.selectedCategory
            /\ showSummary' = after.showSummary
            /\ console' = IF after.rejected THEN Append(console, MONTH_DIAGNOSTIC)
                          ELSE console
            \* a parsed json is a new object; null replaces a dataset
            /\ pendingEffects' = IF ~after.rejected \/ data # NULL THEN {"filter"}
                                 ELSE {}
            /\ inflight' = inflight \ {f}
            /\ event' = [type |-> "monthSettled", fetch |-> f, response |-> r]
    /\ loading' = FALSE
    /\ UNCHANGED <<patches, openYears, selected, cvssSort, filteredVulns, indexFetch,
                   issued>>
    /\ crashed' = RenderThrows'

\* the controls of the dataset branch
ControlsShown == Idle /\ Branch = "dataset"

\* onClick={() => setShowSummary(true)} and onClick={() => setShowSummary(false)}
SetShowSummary ==
    /\ ControlsShown
    /\ \E b \in BOOLEAN : showSummary' = b
    /\ event' = [type |-> "showSummary"]
    /\ UNCHANGED <<patches, openYears, selected, data, categories, selectedCategory,
                   cvssSort, filteredVulns, loading, indexFetch, inflight, issued,
                   console, pendingEffects>>
    /\ crashed' = RenderThrows'

\* onChange={(e) => setSelectedCategory(e.target.value)}: the select is disabled
\* in the summary view and offers "" and the categories
SetSelectedCategory ==
    /\ ControlsShown
    /\ ~showSummary
    /\ \E c \in {EmptyString} \cup Range(categories) :
        /\ selectedCategory' = c
        /\ pendingEffects' = IF c # selectedCategory THEN {"filter"} ELSE {}
    /\ event' = [type |-> "category"]
    /\ UNCHANGED <<patches, openYears, selected, data, categories, cvssSort,
                   showSummary, filteredVulns, loading, indexFetch, inflight, issued,
                   console, crashed>>

\* onChange={e => setCvssSort(e.target.value)}
SetCvssSort ==
    /\ ControlsShown
    /\ ~showSummary
    /\ \E s \in {EmptyString, "desc", "asc"} :
        /\ cvssSort' = s
        /\ pendingEffects' = IF s # cvssSort THEN {"filter"} ELSE {}
    /\ event' = [type |-> "sort"]
    /\ UNCHANGED <<patches, openYears, selected, data, categories, selectedCategory,
                   showSummary, filteredVulns, loading, indexFetch, inflight, issued,
                   console, crashed>>

Next ==
    \/ IndexFetchSettles(AppIndexResponses)
    \/ ToggleYear
    \/ SelectMonth
    \/ RunEffects
    \/ MonthFetchSettles
    \/ SetShowSummary
    \/ SetSelectedCategory
    \/ SetCvssSort

Spec == Init /\ [][Next]_vars

\* the index loader alone, over every answer within the bound
NextIndex ==
    \/ IndexFetchSettles(IndexResponses)
    \/ ToggleYear

SpecIndex == Init /\ [][NextIndex]_vars
----
\* The filter/sort effect over every record sequence within the bound

\* records with a score (at the thresholds 9.0 and 7.0, and just under 7.0),
\* without one, with a score of 0, with equal scores, with no, one and two
\* affected products, with no, one and two threat types and with a threat type
\* that VULN_TYPES does not list
RecordPool ==
    {Vuln("CVE-A", Some(90), TRUE, FALSE, <<"Remote Code Execution">>, <<"Windows">>),
     Vuln("CVE-B", None, FALSE, TRUE, <<>>, <<"Azure">>),
     Vuln("CVE-C", Some(0), FALSE, FALSE, <<"Elevation of Privilege", "Spoofing">>,
          <<"Azure", "Windows">>),
     Vuln("CVE-D", Some(69), FALSE, FALSE, <<"Tampering">>, <<>>),
     Vuln("CVE-E", Some(69), TRUE, TRUE, <<"Remote Code Execution">>, <<"Windows">>),
     Vuln("CVE-F", Some(70), FALSE, TRUE, <<"Spoofing">>, <<"Azure">>)}

\* a dataset with these records; no record is of the category Mariner
FilterDataset(records) ==
    [metadata |-> [title |-> Jan2024],
     products |-> <<Product("Windows 11", "Windows"), Product("CBL-Mariner 2.0", "Mariner"),
                    Product("Azure CLI", "Azure")>>,
     vulnerabilities |-> records]

\* the month Jan2024 has just loaded with one of these datasets, as the second
\* month of the session (the first had no records), under any sort direction
\* the user had chosen before
InitFilter ==
    /\ patches = IndexChain(Http(TRUE, JsonArray(Strings(<<Dec2024, Jan2024>>)))).grouped
    /\ openYears = {YearOf(Jan2024)}
    /\ selected = Some(Jan2024)
    /\ \E records \in SeqsUpTo(RecordPool, MaxRecords) :
        /\ data = FilterDataset(records)
        /\ event = [type |-> "monthSettled", fetch |-> [id |-> 2, file |-> Jan2024],
                    response |-> Http(TRUE, JsonObject(data))]
    /\ categories = CategoriesOf(data.products)
    /\ selectedCategory = EmptyString
    /\ cvssSort \in {EmptyString, "desc", "asc"}
    /\ showSummary = TRUE
    /\ filteredVulns = Some(<<>>)
    /\ loading = FALSE
    /\ indexFetch = "settled"
    /\ inflight = {}
    /\ issued = 2
    /\ console = <<>>
    /\ crashed = FALSE
    /\ pendingEffects = {"filter"}

NextFilter ==
    \/ RunEffects
    \/ SetShowSummary
    \/ SetSelectedCategory
    \/ SetCvssSort

SpecFilter == InitFilter /\ [][NextFilter]_vars
----
\* Properties

\* the month chain fulfils: a success status and a JSON object with products
Accepted(r) ==
    /\ r.kind = "http"
    /\ r.ok
    /\ r.body.json = "object"
    /\ "products" \in DOMAIN r.body.value

\* the payload is a dataset: a JSON object with products and vulnerabilities
WellFormed(r) == Accepted(r) /\ "vulnerabilities" \in DOMAIN r.body.value

\* this step settles the fetch f
Settles(f) ==
    /\ f \in inflight
    /\ inflight' = inflight \ {f}
    /\ event'.type = "monthSettled"
    /\ event'.fetch = f

\* C1: a month fetch leaves the fetches in flight only by settling (none is
\* cancelled by a later selection), every settlement writes the dataset (the
\* payload, or null on a failure) whatever the order of issue, and nothing but
\* a settlement writes it: the dataset is the one of the fetch that settled last.
C1_LastSettlementWins ==
    [][/\ \A f \in inflight :
            \/ f \in inflight'
            \/ /\ Settles(f)
               /\ data' = IF Accepted(event'.response) THEN event'.response.body.value
                          ELSE NULL
       /\ inflight \subseteq inflight' => data' = data]_vars

\* every fetch has settled and the dataset is of another month than the selected
C1_StaleMonthShown ==
    /\ inflight = {}
    /\ pendingEffects = {}
    /\ ~crashed
    /\ issued >= 2
    /\ data # NULL
    /\ Some(data.metadata.title) # selected
    /\ Branch = "dataset"
\* cats is the sorted duplicate-free set of the categories of products
IsSortedCategorySet(cats, products) ==
    /\ Range(cats) = {products[i].category : i \in 1..Len(products)}
    /\ \A i, j \in 1..Len(cats) : i < j => CodeUnitRank(cats[i]) < CodeUnitRank(cats[j])

\* C2 as stated: after a month fetch settles successfully the category set is
\* the sorted duplicate-free set of the dataset's product categories, the
\* category filter is reset to none and the sort order is reset to none.
C2_Original ==
    (event.type = "monthSettled" /\ WellFormed(event.response)) =>
        /\ IsSortedCategorySet(categories, data.products)
        /\ selectedCategory = EmptyString
        /\ cvssSort = EmptyString

\* C2, amended: a successful settlement stores the payload, sets the category
\* set to the sorted duplicate-free set of its product categories, resets the
\* category filter to none and the view to the summary, and leaves the sort
\* order as the user had chosen it.
C2_SuccessResetsCategory ==
    [][\A f \in inflight :
          (Settles(f) /\ Accepted(event'.response)) =>
              /\ data' = event'.response.body.value
              /\ IsSortedCategorySet(categories', data'.products)
              /\ selectedCategory' = EmptyString
              /\ showSummary'
              /\ cvssSort' = cvssSort]_vars

\* a month has loaded while a sort order was chosen; its products name the
\* category Windows twice and before Azure
C2_LoadedUnderSort ==
    /\ event.type = "monthSettled"
    /\ Accepted(event.response)
    /\ event.fetch.file = Jan2024
    /\ cvssSort = "desc"
    /\ categories = <<"Azure", "Windows">>
    /\ selectedCategory = EmptyString

\* C3 as stated: after every click on a month entry (and the effects of its
\* commit) the month is the selection, the loader is loading and a new fetch
\* for that month is in flight.
C3_Original ==
    (event.type = "select" /\ Idle) =>
        /\ selected = Some(event.file)
        /\ loading
        /\ issued = event.issuedBefore + 1
        /\ [id |-> issued, file |-> event.file] \in inflight

\* the fetch failed: a network error or a non-success status
FetchFailed(r) == r.kind = "network" \/ ~r.ok

\* C4: a settlement with a failure leaves no dataset, no categories and no
\* loading flag, so the panel shows no records; and from a state without a
\* dataset only a successful settlement brings one back.
C4_FailureClears ==
    [][/\ \A f \in inflight :
            (Settles(f) /\ FetchFailed(event'.response)) =>
                /\ data' = NULL
                /\ categories' = <<>>
                /\ ~loading'
                /\ Displayed' = [branch |-> "nodata"]
       /\ (data = NULL /\ data' # NULL) =>
            \E f \in inflight : Settles(f) /\ Accepted(event'.response)]_vars

\* a fetch has failed after a month had been loaded and displayed
C4_ClearedAfterLoad ==
    /\ event.type = "monthSettled"
    /\ FetchFailed(event.response)
    /\ data = NULL
    /\ filteredVulns # Some(<<>>)
    /\ Branch = "nodata"

\* the payload arrived with a success status and is malformed
Malformed(r) ==
    /\ r.kind = "http"
    /\ r.ok
    /\ \/ r.body.json = "invalid"
       \/ /\ r.body.json = "object"
          /\ \/ "products" \notin DOMAIN r.body.value
             \/ "vulnerabilities" \notin DOMAIN r.body.value

\* C5 as stated: after a fetch settles with a malformed payload there is no
\* dataset and no error has been thrown in an effect or in render.
C5_Original ==
    (event.type = "monthSettled" /\ Malformed(event.response)) =>
        /\ data = NULL
        /\ ~crashed
\* the index fetch failed: network error, non-success status, or a payload that
\* is no JSON array of strings
IndexFailed(r) ==
    \/ r.kind = "network"
    \/ ~r.ok
    \/ r.body.json # "array"
    \/ \E i \in 1..Len(r.body.items) : r.body.items[i].t # "string"

\* C6: an index fetch that fails is caught (nothing is thrown into render), one
\* diagnostic is logged and the mapping stays empty; once the index fetch has
\* settled no other is issued and the mapping never changes.
C6_IndexFailureCaught ==
    [][/\ (indexFetch = "pending" /\ indexFetch' = "settled"
              /\ IndexFailed(event'.response)) =>
            /\ patches' = EmptyObject
            /\ console' = Append(console, INDEX_DIAGNOSTIC)
            /\ ~crashed'
       /\ indexFetch = "settled" =>
            /\ indexFetch' = "settled"
            /\ patches' = patches]_vars

\* the index fetch was answered with a non-success status
C6_IndexNotFound ==
    /\ event.type = "indexSettled"
    /\ event.response.kind = "http"
    /\ ~event.response.ok
    /\ event.response.body = JsonArray(Strings(<<Jan2024>>))
    /\ indexFetch = "settled"
    /\ patches = EmptyObject
    /\ console = <<INDEX_DIAGNOSTIC>>

\* C7 as stated, for a fetch that has not settled and since whose issue nothing
\* has settled: the loader is loading and the dataset loaded before the
\* selection is still displayed.
C7_Original ==
    (/\ event.type = "select"
     /\ Idle
     /\ issued = event.issuedBefore + 1
     /\ [id |-> issued, file |-> event.file] \in inflight) =>
        /\ loading
        /\ data # NULL => Displayed.branch = "dataset"

\* C7, amended: a fetch that does not settle stays in flight (nothing times it
\* out or cancels it); the loading flag is dropped and the dataset loaded
\* before is replaced only by the settlement of some month fetch; and while the
\* loading flag is set the panel shows the placeholder, not that dataset.
C7_LoadingHidesContent ==
    [][/\ \A f \in inflight : f \in inflight' \/ Settles(f)
       /\ (loading /\ ~loading') => \E f \in inflight : Settles(f)
       /\ data' # data => \E f \in inflight : Settles(f)
       /\ loading' => Displayed' = [branch |-> "placeholder"]]_vars

\* a fetch is in flight after a month was loaded: the loader is loading, the
\* dataset of that month is kept and the panel shows the placeholder
C7_HungAfterLoad ==
    /\ event.type = "select"
    /\ Idle
    /\ inflight = {[id |-> issued, file |-> event.file]}
    /\ loading
    /\ data # NULL
    /\ data.metadata.title # event.file
    /\ Displayed = [branch |-> "placeholder"]

\* the files of an index response that is an array of strings
FilesOf(r) == [i \in 1..Len(r.body.items) |-> r.body.items[i].s]

Count(s, x) == Cardinality({i \in 1..Len(s) : s[i] = x})

\* the place of the month token of a file in Jan..Dec, -1 when it has none
CalendarPosition(file) == IF MonthPart(file) = None THEN -1 ELSE MonthRank(file)

\* p maps each year key of the files to exactly the files of that year, in
\* calendar order
IsCalendarGrouping(p, files) ==
    /\ DOMAIN p = {YearOf(f) : f \in Range(files)}
    /\ \A year \in DOMAIN p :
        /\ \A f \in Range(files) \cup Range(p[year]) :
              Count(p[year], f) = IF YearOf(f) = year THEN Count(files, f) ELSE 0
        /\ \A i, j \in 1..Len(p[year]) :
              i < j => CalendarPosition(p[year][i]) <= CalendarPosition(p[year][j])

\* C8 as stated: for every index list the mapping holds, under each year key,
\* exactly the identifiers of that year that end in .json, in calendar order,
\* and no identifier with another extension.
C8_Original ==
    (event.type = "indexSettled" /\ ~IndexFailed(event.response)) =>
        IsCalendarGrouping(patches,
            SelectSeq(FilesOf(event.response), LAMBDA f : EndsWith(f, JSON_EXT)))

\* the year/month prefix of an identifier parses: a "-" and, after it, one of
\* the twelve month abbreviations
Parseable(file) ==
    /\ MonthPart(file) # None
    /\ IndexOfMonth(Replace(MonthPart(file)[1], JSON_EXT)) >= 0

\* C9 as stated: an identifier whose prefix does not parse is under no year
\* key, and the mapping is the grouping of the other identifiers.
C9_Original ==
    (event.type = "indexSettled" /\ ~IndexFailed(event.response)) =>
        /\ \A f \in Range(FilesOf(event.response)) :
              ~Parseable(f) => \A year \in DOMAIN patches : f \notin Range(patches[year])
        /\ IsCalendarGrouping(patches,
              SelectSeq(FilesOf(event.response),
                        LAMBDA f : EndsWith(f, JSON_EXT) /\ Parseable(f)))
\* the records of src that the category selector keeps, by their places
Kept(src, cat) ==
    {i \in 1..Len(src) :
        cat = EmptyString
        \/ \E k \in 1..Len(src[i].affected_products) :
              src[i].affected_products[k].category = cat}

\* the score a record is ordered by: an absent score counts as 0
OrderingScore(v) == IF v.cvss_score = None THEN 0 ELSE v.cvss_score[1]

\* the stored view is the filter/sort of the records of the dataset
ViewIsFilterSort ==
    LET src == data.vulnerabilities
        kept == Kept(src, selectedCategory)
        view == filteredVulns[1]
    IN  /\ filteredVulns # None
        /\ Len(view) = Cardinality(kept)
        /\ \A v \in Range(src) \cup Range(view) :
              Count(view, v) = Cardinality({i \in kept : src[i] = v})
        /\ cvssSort = EmptyString =>
              \A k \in 1..Len(view) :
                  view[k] = src[CHOOSE i \in kept :
                                    Cardinality({j \in kept : j <= i}) = k]
        /\ cvssSort = "asc" =>
              \A i, j \in 1..Len(view) :
                  i < j => OrderingScore(view[i]) <= OrderingScore(view[j])
        /\ cvssSort = "desc" =>
              \A i, j \in 1..Len(view) :
                  i < j => OrderingScore(view[i]) >= OrderingScore(view[j])

\* C10: once the effect has run, the derived view holds exactly the records
\* with an affected product of the selected category (all of them with no
\* category, none when none matches, without an error), in their original
\* order with no sort direction and ordered by score (absent as 0) with one;
\* and the records of the dataset are never changed.
C10_DerivedView ==
    [][/\ data' = data
       /\ ~crashed'
       /\ pendingEffects' = {} => ViewIsFilterSort']_vars

\* three records, one without a score and of another category: under category
\* Windows and ascending order the view is the third record, then the first
C10_FilteredAndSorted ==
    /\ Idle
    /\ Len(data.vulnerabilities) = 3
    /\ data.vulnerabilities[1].cve = "CVE-A"
    /\ data.vulnerabilities[2].cve = "CVE-B"
    /\ data.vulnerabilities[3].cve = "CVE-C"
    /\ selectedCategory = "Windows"
    /\ cvssSort = "asc"
    /\ filteredVulns = Some(<<data.vulnerabilities[3], data.vulnerabilities[1]>>)
----
\* the places of the records of vulns that have a score
Scored(vulns) == {i \in 1..Len(vulns) : vulns[i].cvss_score # None}

\* the places of the records of vulns with a score of at least t tenths
ScoredAtLeast(vulns, t) == {i \in Scored(vulns) : vulns[i].cvss_score[1] >= t}

\* the sum of the scores of the records of vulns at the places I
RECURSIVE TotalScore(_, _)
TotalScore(vulns, I) ==
    IF I = {} THEN 0
    ELSE LET i == CHOOSE k \in I : TRUE
         IN  vulns[i].cvss_score[1] + TotalScore(vulns, I \ {i})

\* stats are the summary statistics of the records vulns
IsSummaryOf(stats, vulns) ==
    /\ stats.total = Len(vulns)
    /\ stats.exploited = Cardinality({i \in 1..Len(vulns) : vulns[i].exploited})
    /\ stats.likely = Cardinality({i \in 1..Len(vulns) : vulns[i].exploitation_likely})
    /\ stats.high = Cardinality(ScoredAtLeast(vulns, 70))
    /\ stats.critical = Cardinality(ScoredAtLeast(vulns, 90))
    /\ stats.critical <= stats.high
    /\ stats.avg.den > 0
    /\ IF Scored(vulns) = {} THEN stats.avg.num = 0
       ELSE stats.avg.num * Cardinality(Scored(vulns))
                = TotalScore(vulns, Scored(vulns)) * stats.avg.den

\* C11: for every record sequence the statistics of the header are its summary:
\* total is the number of records, exploited and likely the numbers of records
\* with the flag, high and critical the numbers of records with a score of at
\* least 7.0 and of at least 9.0 (a critical record is also high, a record
\* without a score is neither), and the average is the mean of the scores of the
\* records that have one (a score of 0 counts, an absent one does not), 0 when
\* no record has a score and for the empty sequence.
C11_SummaryStats ==
    HeaderStats # None => IsSummaryOf(HeaderStats[1], filteredVulns[1])

\* a record scored 9.0, one without a score and one scored 0: three records,
\* one of them high and critical, and the average is 4.5
C11_ScoredUnscoredAndZero ==
    /\ Idle
    /\ HeaderStats # None
    /\ Len(filteredVulns[1]) = 3
    /\ {v.cvss_score : v \in Range(filteredVulns[1])} = {Some(90), None, Some(0)}
    /\ HeaderStats[1].total = 3
    /\ HeaderStats[1].high = 1
    /\ HeaderStats[1].critical = 1
    /\ HeaderStats[1].avg = Quotient(45, 1)

\* C12: in every reachable state the loading flag is true if and only if at
\* least one month fetch is in flight: it is never false while a fetch issued
\* for a month selection has not yet settled, also when a second month is
\* selected while the fetch of the first is pending.
C12_Original == loading <=> inflight # {}

\* C13: in every reachable state in which a dataset is displayed (dataset
\* present and loading flag false), the stored derived view is the filter/sort
\* of the records of that dataset under the current category selector and sort
\* direction: after any month loads, failures and filter/sort changes, the
\* header statistics and the table are never computed from the records of
\* another month or from an outdated filter/sort.
C13_Original ==
    (~crashed /\ Branch = "dataset" /\ "vulnerabilities" \in DOMAIN data)
        => ViewIsFilterSort

====
